---- MODULE Spec2Model ----
(***************************************************************************)
(* State-machine model of redirect_server.py (SmartLinks backend).         *)
(*                                                                         *)
(* The store is one SQLite connection and ONE module-level cursor `c`      *)
(* shared by every request (redirect_server.py:63-64).  Sync handlers run  *)
(* on thread-pool workers, the async webhook on the event-loop thread, so  *)
(* requests interleave between any two calls on the cursor.  Each call on  *)
(* the cursor (execute / fetchone / fetchall / next) is one atomic step.   *)
(***************************************************************************)
EXTENDS Integers, Sequences, FiniteSets, TLC

VARIABLES owners, links, clicks, cur, th

vars == <<owners, links, clicks, cur, th>>

db == <<owners, links, clicks>>

\* ------------------------------------------------------------------ bounds
\* rows the links and clicks tables hold together, requests that are still
\* to store their row counted in
MaxRows == 4

\* the same, where lookups run concurrently
RaceRows == 3

\* ------------------------------------------------------- program constants
FREE_LIMIT == 3

\* --------------------------------------------------------------- input sets
Workers == {"w1", "w2"}

Loop == "loop"

Threads == Workers \cup {Loop}

\* X-Owner-Token header values; "" stands for a missing or empty header
Tokens == {"a", "b"}

NoToken == ""

\* CreateLinkIn.original_url: any str passes validation, the empty one too
EmptyUrl == ""

Urls == {EmptyUrl, "u1", "u2"}

\* short codes; make_code draws from 62^5 strings, here from a space that
\* always holds one more code than rows can be prior
Codes == 1..(MaxRows + 1)

\* redirect requests: ua is the set of signature substrings the lowercased
\* User-Agent holds, ip the x-forwarded-for header or peer address ("" when
\* neither is there), day the Pacific weekday of now_local_iso() (Monday = 0)
Visits ==
    {[ua |-> {"iphone"}, ip |-> "10.0.0.1", day |-> 0],
     [ua |-> {}, ip |-> "10.0.0.2", day |-> 6],
     [ua |-> {"ipad", "mobile"}, ip |-> "", day |-> 6]}

EventTypes == {"checkout.session.completed", "invoice.paid"}

\* metadata.owner_key of a webhook event; "" stands for an absent key
MetaOwners == {"", "tok:a"}

\* ------------------------------------------------------------ column values
\* A cell of a result row: tagged with its Python type.
StrCell(s) == <<"str", s>>

IntCell(n) == <<"int", n>>

CodeCell(k) == <<"code", k>>

TsCell(d) == <<"ts", d>>

CreatedCell(k) == <<"created", k>>

\* Python truthiness of a cell (codes and timestamps are non-empty strings)
Truthy(cell) == cell \notin {StrCell(""), IntCell(0)}

OwnerKey(tok) == "tok:" \o tok

\* ------------------------------------------------------------------ helpers
RECURSIVE Reverse(_)
Reverse(s) == IF s = <<>> THEN <<>> ELSE Append(Reverse(Tail(s)), Head(s))

\* ---------------------------------------------------------------- SQL text
\* SELECT plan FROM owners WHERE owner_key=?
SelPlan(owner) ==
    LET Hit(r) == r.owner_key = owner
        hits == SelectSeq(owners, Hit)
    IN  [i \in 1..Len(hits) |-> <<StrCell(hits[i].plan)>>]

\* SELECT COUNT(*) FROM links WHERE owner_key=?
CountLinks(owner) ==
    LET Hit(r) == r.owner_key = owner
    IN  << <<IntCell(Cardinality({i \in 1..Len(links) : Hit(links[i])}))>> >>

\* SELECT 1 FROM links WHERE short_code=?
SelOne(code) ==
    LET Hit(r) == r.short_code = code
        hits == SelectSeq(links, Hit)
    IN  [i \in 1..Len(hits) |-> <<IntCell(1)>>]

\* SELECT original_url FROM links WHERE short_code=?
SelUrl(code) ==
    LET Hit(r) == r.short_code = code
        hits == SelectSeq(links, Hit)
    IN  [i \in 1..Len(hits) |-> <<StrCell(hits[i].original_url)>>]

\* SELECT original_url, short_code, created_at FROM links WHERE owner_key=?
\* ORDER BY id DESC   (a link's id is its position in links)
\* created_at is written once and only read back into the listing: the column
\* is carried as an opaque timestamp cell, one per link
SelLinksDesc(owner) ==
    LET Hit(r) == r.owner_key = owner
        hits == Reverse(SelectSeq(links, Hit))
    IN  [i \in 1..Len(hits) |->
            <<StrCell(hits[i].original_url), CodeCell(hits[i].short_code),
              CreatedCell(hits[i].short_code)>>]

\* SELECT COUNT(*) FROM clicks WHERE short_code=?   (the parameter is whatever
\* cell the caller bound; only a code can equal a prior short_code)
CountClicks(cell) ==
    LET Hit(r) == CodeCell(r.short_code) = cell
    IN  << <<IntCell(Cardinality({i \in 1..Len(clicks) : Hit(clicks[i])}))>> >>

\* the same SELECT without its WHERE clause
SelClicksAnyCode(code) ==
    [i \in 1..Len(clicks) |->
        <<TsCell(clicks[i].ts), StrCell(clicks[i].ip), StrCell(clicks[i].device)>>]

\* SELECT ts, ip, device FROM clicks WHERE short_code=? ORDER BY ts
\* (clicks are stamped and appended in clock order)
SelClicks(code) ==
    LET Hit(r) == r.short_code = code
        hits == SelectSeq(clicks, Hit)
    IN  [i \in 1..Len(hits) |->
            <<TsCell(hits[i].ts), StrCell(hits[i].ip), StrCell(hits[i].device)>>]

\* the UNIQUE constraints of the schema
OwnerKeyTaken(owner) == \E i \in 1..Len(owners) : owners[i].owner_key = owner

ShortCodeTaken(code) == \E i \in 1..Len(links) : links[i].short_code = code

PlanIsPro(owner) ==
    \E i \in 1..Len(owners) : owners[i].owner_key = owner /\ owners[i].plan = "pro"

\* -------------------------------------------------------------- the cursor
\* c.fetchone() / next(c): the next row of the cursor's current statement, or
\* None (<<>>) when it is exhausted; whichever request executed the statement
FetchOne == IF cur = <<>> THEN <<>> ELSE Head(cur)

AfterFetch == IF cur = <<>> THEN <<>> ELSE Tail(cur)

\* ------------------------------------------------------------ thread state
\* a response: the handler, its status, what was asked (owner, code or event)
\* and the body
NoRes == [op |-> "none", status |-> 0, arg |-> <<>>, val |-> <<>>, prior |-> FALSE]

Res(op, status, arg, val) ==
    [op |-> op, status |-> status, arg |-> arg, val |-> val, prior |-> FALSE]

\* a thread between requests
IdleThread ==
    [pc |-> "idle", op |-> "none", owner |-> "", ret |-> "", code |-> 0,
     prior |-> FALSE, out |-> <<>>, row |-> <<>>, res |-> NoRes]

\* a thread whose handler has returned or raised, holding the response
Done(res) == [IdleThread EXCEPT !.pc = "done", !.res = res]

Begin(op, pc, owner, ret, code) ==
    [pc |-> pc, op |-> op, owner |-> owner, ret |-> ret, code |-> code,
     prior |-> FALSE, out |-> <<>>, row |-> <<>>, res |-> NoRes]

\* prior records, for the properties only, whether what the request asks for
\* was there when it arrived: a link with the code (go, report_pdf), the
\* owner's row (get_plan), the owner's pro plan (stripe_webhook)
BeginLookup(op, pc, code) ==
    [Begin(op, pc, "", "", code) EXCEPT !.prior = ShortCodeTaken(code)]

Set(t, rec) == th' = [th EXCEPT ![t] = rec]

Goto(t, pc) == Set(t, [th[t] EXCEPT !.pc = pc])

\* the handler raises or returns: the response is sent and the thread is free
Finish(t, status, arg, val) ==
    Set(t, Done([Res(th[t].op, status, arg, val) EXCEPT !.prior = th[t].prior]))

\* the response is sent and the thread takes the next request
Return(t) ==
    /\ th[t].pc = "done"
    /\ Set(t, IdleThread)
    /\ UNCHANGED <<owners, links, clicks, cur>>

AllIdle == \A t \in Threads : th[t].pc = "idle"

Init ==
    /\ owners = <<>>
    /\ links = <<>>
    /\ clicks = <<>>
    /\ cur = <<>>
    /\ th = [t \in Threads |-> IdleThread]

\* ------------------------------------------------------------ ensure_owner
\* line 114: c.execute("SELECT plan FROM owners WHERE owner_key=?")
EnsureSelect(t) ==
    /\ th[t].pc = "ensure114"
    /\ cur' = SelPlan(th[t].owner)
    /\ Goto(t, "ensure115")
    /\ UNCHANGED db

\* where control goes when ensure_owner returns to its caller
AfterEnsure(r) ==
    CASE r.ret = "create155" -> [r EXCEPT !.pc = "ensure114", !.ret = "plan123"]
      [] OTHER -> [r EXCEPT !.pc = r.ret]

\* lines 115-116: row = c.fetchone(); if not row: ...
EnsureFetch(t) ==
    /\ th[t].pc = "ensure115"
    /\ cur' = AfterFetch
    /\ IF FetchOne = <<>>
         THEN Goto(t, "ensure117")
         ELSE Set(t, AfterEnsure(th[t]))
    /\ UNCHANGED db

\* INSERT INTO owners (owner_key, plan, created_at) VALUES (?, 'free', ?)
InsertOwner(owner) == Append(owners, [owner_key |-> owner, plan |-> "free"])

\* lines 117-119: the INSERT and commit; owner_key is UNIQUE, so a second row
\* for the key raises IntegrityError out of the handler
EnsureInsert(t) ==
    /\ th[t].pc = "ensure117"
    /\ cur' = <<>>
    /\ IF OwnerKeyTaken(th[t].owner)
         THEN /\ Finish(t, 500, th[t].owner, <<>>)
              /\ UNCHANGED owners
         ELSE /\ owners' = InsertOwner(th[t].owner)
              /\ Set(t, AfterEnsure(th[t]))
    /\ UNCHANGED <<links, clicks>>

\* -------------------------------------------------------------- owner_plan
\* line 123: c.execute("SELECT plan FROM owners WHERE owner_key=?")
PlanSelect(t) ==
    /\ th[t].pc = "plan123"
    /\ cur' = SelPlan(th[t].owner)
    /\ Goto(t, "plan124")
    /\ UNCHANGED db

\* line 125: return row[0] if row else 'free'
PlanOf(row) == IF row = <<>> THEN StrCell("free") ELSE row[1]

\* lines 124-125 and the caller's use of the plan: get_plan returns it
\* (line 146), create_link tests plan != "pro" (line 157)
PlanFetch(t) ==
    /\ th[t].pc = "plan124"
    /\ cur' = AfterFetch
    /\ LET plan == PlanOf(FetchOne)
       IN  CASE th[t].op = "get_plan" -> Finish(t, 200, th[t].owner, plan)
             [] plan # StrCell("pro") -> Goto(t, "create158")
             [] OTHER -> Goto(t, "make99")
    /\ UNCHANGED db

\* ---------------------------------------------------------- set_owner_plan
\* the plan written as a new row instead of into the owner's row
UpdatePlanAppend(owner, plan) == Append(owners, [owner_key |-> owner, plan |-> plan])

\* UPDATE owners SET plan=? WHERE owner_key=?
UpdatePlan(owner, plan) ==
    [i \in 1..Len(owners) |->
        IF owners[i].owner_key = owner
          THEN [owners[i] EXCEPT !.plan = plan]
          ELSE owners[i]]

\* lines 129-130 after ensure_owner, then the webhook's {"status": "ok"}
SetPlanUpdate(t) ==
    /\ th[t].pc = "setplan129"
    /\ owners' = UpdatePlan(th[t].owner, "pro")
    /\ cur' = <<>>
    /\ Finish(t, 200, th[t].row, "ok")
    /\ UNCHANGED <<links, clicks>>

\* ---------------------------------------------------------------- get_plan
\* lines 143-145: a call without a token is refused
GetPlanMissingToken(t) ==
    /\ th[t].pc = "idle"
    /\ Set(t, Done(Res("get_plan", 400, NoToken, <<>>)))
    /\ UNCHANGED <<db, cur>>

GetPlan(t) ==
    /\ th[t].pc = "idle"
    /\ \E tok \in Tokens :
         Set(t, [Begin("get_plan", "ensure114", OwnerKey(tok), "plan123", 0)
                   EXCEPT !.prior = OwnerKeyTaken(OwnerKey(tok))])
    /\ UNCHANGED <<db, cur>>

\* ---------------------------------------------------------- stripe_webhook
\* a call is <<secret, verified, type, owner>>: whether the process serving
\* it has STRIPE_WEBHOOK_SECRET set (the store outlives a redeploy that sets
\* it), whether construct_event accepts the payload and signature, the event's
\* type and its metadata.owner_key
Events == BOOLEAN \X BOOLEAN \X EventTypes \X MetaOwners

\* lines 398-402: an event that upgrades an owner
Upgrades(type, owner) == type = "checkout.session.completed" /\ owner # ""

\* the handler without the construct_event check
WebhookOutcomeUnverified(ev) ==
    CASE ~ev[1] -> "ignored"
      [] Upgrades(ev[3], ev[4]) -> "upgrade"
      [] OTHER -> "ok"

\* lines 387-402: what the handler does with a call
WebhookOutcome(ev) ==
    CASE ~ev[1] -> "ignored"
      [] ~ev[2] -> "rejected"
      [] Upgrades(ev[3], ev[4]) -> "upgrade"
      [] OTHER -> "ok"

\* lines 387-388: no webhook secret configured
WebhookIgnored ==
    /\ th[Loop].pc = "idle"
    /\ \E ev \in Events :
         /\ WebhookOutcome(ev) = "ignored"
         /\ Set(Loop, Done(Res("stripe_webhook", 200, ev, "ignored")))
    /\ UNCHANGED <<db, cur>>

\* lines 392-395: construct_event raises, the signature does not verify
WebhookRejected ==
    /\ th[Loop].pc = "idle"
    /\ \E ev \in Events :
         /\ WebhookOutcome(ev) = "rejected"
         /\ Set(Loop, Done(Res("stripe_webhook", 400, ev, "error")))
    /\ UNCHANGED <<db, cur>>

\* lines 398-404: a verified event that upgrades nobody
WebhookNoop ==
    /\ th[Loop].pc = "idle"
    /\ \E ev \in Events :
         /\ WebhookOutcome(ev) = "ok"
         /\ Set(Loop, Done(Res("stripe_webhook", 200, ev, "ok")))
    /\ UNCHANGED <<db, cur>>

\* lines 398-402: set_owner_plan(owner, "pro"), entered at ensure_owner
WebhookUpgrade ==
    /\ th[Loop].pc = "idle"
    /\ \E ev \in Events :
         /\ WebhookOutcome(ev) = "upgrade"
         /\ Set(Loop, [Begin("stripe_webhook", "ensure114", ev[4], "setplan129", 0)
                         EXCEPT !.row = ev, !.prior = PlanIsPro(ev[4])])
    /\ UNCHANGED <<db, cur>>

\* --------------------------------------------------------------- make_code
\* requests that are inside create_link or go (each stores at most one row)
Storing == Cardinality({t \in Threads : th[t].op \in {"create_link", "go"}})

RoomForRow == Len(links) + Len(clicks) + Storing < MaxRows

\* Codes are only ever compared for equality, so the codes no row and no
\* running request holds are interchangeable: a draw is a code already seen
\* somewhere or the least code not seen yet.
KnownCodes ==
    {links[i].short_code : i \in 1..Len(links)}
      \cup {clicks[i].short_code : i \in 1..Len(clicks)}
      \cup {th[t].code : t \in {u \in Threads : th[u].op \in {"create_link", "go"}}}

FreshCode == CHOOSE k \in Codes \ KnownCodes : \A j \in Codes \ KnownCodes : k <= j

CodeDraws == (KnownCodes \cap Codes) \cup {FreshCode}

\* lines 99-100: draw a random code and look it up
MakeCodeSelect(t) ==
    /\ th[t].pc = "make99"
    /\ \E code \in CodeDraws :
         /\ cur' = SelOne(code)
         /\ Set(t, [th[t] EXCEPT !.pc = "make101", !.code = code])
    /\ UNCHANGED db

\* lines 101-102: if not c.fetchone(): return code   (else draw again)
MakeCodeFetch(t) ==
    /\ th[t].pc = "make101"
    /\ cur' = AfterFetch
    /\ IF FetchOne = <<>> THEN Goto(t, "create164") ELSE Goto(t, "make99")
    /\ UNCHANGED db

\* ------------------------------------------------------------- create_link
\* lines 151-152
CreateLinkMissingToken(t) ==
    /\ th[t].pc = "idle"
    /\ Set(t, Done(Res("create_link", 400, NoToken, <<>>)))
    /\ UNCHANGED <<db, cur>>

\* lines 153-155: ensure_owner(owner), then owner_plan(owner)
CreateLink(t) ==
    /\ th[t].pc = "idle"
    /\ RoomForRow
    /\ \E tok \in Tokens :
         Set(t, Begin("create_link", "ensure114", OwnerKey(tok), "create155", 0))
    /\ UNCHANGED <<db, cur>>

\* line 158: c.execute("SELECT COUNT(*) FROM links WHERE owner_key=?")
CreateCountSelect(t) ==
    /\ th[t].pc = "create158"
    /\ cur' = CountLinks(th[t].owner)
    /\ Goto(t, "create159")
    /\ UNCHANGED db

\* the limit test written with > for >=
OverLimitStrict(row) ==
    CASE row = <<>> -> "error"
      [] ~Truthy(row[1]) -> "no"
      [] row[1][1] # "int" -> "error"
      [] row[1][2] > FREE_LIMIT -> "yes"
      [] OTHER -> "no"

\* line 159: (c.fetchone()[0] or 0) >= FREE_LIMIT
\* "error" when the subscript or the comparison raises TypeError
OverLimit(row) ==
    CASE row = <<>> -> "error"
      [] ~Truthy(row[1]) -> "no"
      [] row[1][1] # "int" -> "error"
      [] row[1][2] >= FREE_LIMIT -> "yes"
      [] OTHER -> "no"

\* lines 159-160
CreateCountFetch(t) ==
    /\ th[t].pc = "create159"
    /\ cur' = AfterFetch
    /\ CASE OverLimit(FetchOne) = "yes" -> Finish(t, 402, th[t].owner, <<>>)
         [] OverLimit(FetchOne) = "error" -> Finish(t, 500, th[t].owner, <<>>)
         [] OTHER -> Goto(t, "make99")
    /\ UNCHANGED db

\* INSERT INTO links (original_url, short_code, created_at, owner_key)
InsertLink(url, code, owner) ==
    Append(links, [original_url |-> url, short_code |-> code, owner_key |-> owner])

\* lines 163-170: the INSERT and commit; short_code is UNIQUE, so a prior
\* code raises IntegrityError out of the handler
CreateInsert(t) ==
    /\ th[t].pc = "create164"
    /\ cur' = <<>>
    /\ IF ShortCodeTaken(th[t].code)
         THEN /\ Finish(t, 500, th[t].owner, <<>>)
              /\ UNCHANGED links
         ELSE \E url \in Urls :
              /\ links' = InsertLink(url, th[t].code, th[t].owner)
              /\ Finish(t, 200, th[t].owner, <<url, th[t].code>>)
    /\ UNCHANGED <<owners, clicks>>

\* -------------------------------------------------------------- list_links
\* lines 175-176
ListLinksMissingToken(t) ==
    /\ th[t].pc = "idle"
    /\ Set(t, Done(Res("list_links", 400, NoToken, <<>>)))
    /\ UNCHANGED <<db, cur>>

\* lines 177-178
ListLinks(t) ==
    /\ th[t].pc = "idle"
    /\ \E tok \in Tokens :
         Set(t, Begin("list_links", "ensure114", OwnerKey(tok), "list180", 0))
    /\ UNCHANGED <<db, cur>>

\* lines 180-183: c.execute("SELECT ... FROM links WHERE owner_key=? ORDER BY id DESC")
ListSelect(t) ==
    /\ th[t].pc = "list180"
    /\ cur' = SelLinksDesc(th[t].owner)
    /\ Goto(t, "list180next")
    /\ UNCHANGED db

\* line 180: the for statement takes the next row of c, whatever statement c
\* now holds, and unpacks it into (orig, code, created); line 191 when c is
\* exhausted
ListNext(t) ==
    /\ th[t].pc = "list180next"
    /\ cur' = AfterFetch
    /\ CASE FetchOne = <<>> -> Finish(t, 200, th[t].owner, th[t].out)
         [] Len(FetchOne) # 3 -> Finish(t, 500, th[t].owner, <<>>)
         [] OTHER -> Set(t, [th[t] EXCEPT !.pc = "list184", !.row = FetchOne])
    /\ UNCHANGED db

\* line 184: c.execute("SELECT COUNT(*) FROM clicks WHERE short_code=?", (code,))
ListCountSelect(t) ==
    /\ th[t].pc = "list184"
    /\ cur' = CountClicks(th[t].row[2])
    /\ Goto(t, "list185")
    /\ UNCHANGED db

\* lines 187-190: one entry of the listing
Entry(row, clicks_) == [original_url |-> row[1], short_code |-> row[2], clicks |-> clicks_]

\* lines 185-190: clicks = c.fetchone()[0]; out.append(...)
ListCountFetch(t) ==
    /\ th[t].pc = "list185"
    /\ cur' = AfterFetch
    /\ IF FetchOne = <<>>
         THEN Finish(t, 500, th[t].owner, <<>>)
         ELSE Set(t, [th[t] EXCEPT !.pc = "list180next",
                                   !.out = Append(@, Entry(th[t].row, FetchOne[1]))])
    /\ UNCHANGED db

\* --------------------------------------------------------- classify_device
TabletSigs == {"ipad", "tablet", "kindle", "silk/"}

MobileSigs == {"iphone", "android", "mobile", "ipod", "iemobile", "opera mini",
               "fbav", "instagram", "tiktok", "micromessenger", "pinterest", "line"}

\* lines 104-109
classify_device(ua) ==
    IF ua \cap TabletSigs # {} THEN "tablet"
    ELSE IF ua \cap MobileSigs # {} THEN "mobile"
    ELSE "desktop"

\* ---------------------------------------------------------------------- go
\* line 196: c.execute("SELECT original_url FROM links WHERE short_code=?")
Go(t) ==
    /\ th[t].pc = "idle"
    /\ RoomForRow
    /\ \E code \in CodeDraws :
         /\ cur' = SelUrl(code)
         /\ Set(t, BeginLookup("go", "go197", code))
    /\ UNCHANGED db

\* lines 197-200: row = c.fetchone(); 404 if not row; dest = row[0]
GoFetch(t) ==
    /\ th[t].pc = "go197"
    /\ cur' = AfterFetch
    /\ IF FetchOne = <<>>
         THEN Finish(t, 404, th[t].code, <<>>)
         ELSE Set(t, [th[t] EXCEPT !.pc = "go206", !.row = FetchOne])
    /\ UNCHANGED db

\* INSERT INTO clicks (short_code, ts, ip, user_agent, device, city, country)
InsertClick(code, day, ip, ua) ==
    Append(clicks, [short_code |-> code, ts |-> day, ip |-> ip,
                    user_agent |-> ua, device |-> classify_device(ua)])

\* lines 202-209: log the click and redirect to dest
GoInsert(t) ==
    /\ th[t].pc = "go206"
    /\ cur' = <<>>
    /\ \E v \in Visits :
         clicks' = InsertClick(th[t].code, v.day, v.ip, v.ua)
    /\ Finish(t, 307, th[t].code, th[t].row[1])
    /\ UNCHANGED <<owners, links>>

\* ------------------------------------------------------------ stats_bundle
\* lines 47-53: to_pacific_str; a value fromisoformat cannot read comes back
\* as it is
to_pacific_str(cell) ==
    CASE ~Truthy(cell) -> StrCell("-")
      [] cell[1] = "ts" -> <<"pretty", cell[2]>>
      [] OTHER -> cell

\* lines 216-233, over the rows fetchall returned
stats_bundle(rows) ==
    LET n == Len(rows)
        Dev(d) == Cardinality({i \in 1..n : rows[i][3] = StrCell(d)})
        first_ts == IF n = 0 THEN <<>> ELSE rows[1][1]
        last_ts == IF n = 0 THEN <<>> ELSE rows[n][1]
    IN  [total |-> n,
         unique_visitors |-> Cardinality({rows[i][2] : i \in {j \in 1..n : Truthy(rows[j][2])}}),
         day_counts |-> [d \in 0..6 |-> Cardinality({i \in 1..n : rows[i][1] = TsCell(d)})],
         mobile |-> Dev("mobile"),
         desktop |-> Dev("desktop"),
         tablet |-> Dev("tablet"),
         first_pretty |-> IF first_ts # <<>> /\ Truthy(first_ts)
                            THEN to_pacific_str(first_ts) ELSE StrCell("-"),
         last_pretty |-> IF last_ts # <<>> /\ Truthy(last_ts)
                           THEN to_pacific_str(last_ts) ELSE StrCell("-")]

\* -------------------------------------------------------------- report_pdf
\* line 242: c.execute("SELECT original_url FROM links WHERE short_code=?")
ReportPdf(t) ==
    /\ th[t].pc = "idle"
    /\ \E code \in CodeDraws :
         /\ cur' = SelUrl(code)
         /\ Set(t, BeginLookup("report_pdf", "report243", code))
    /\ UNCHANGED db

\* lines 243-245: row = c.fetchone(); 404 if not row; dest = row[0]
ReportFetch(t) ==
    /\ th[t].pc = "report243"
    /\ cur' = AfterFetch
    /\ IF FetchOne = <<>>
         THEN Finish(t, 404, th[t].code, <<>>)
         ELSE Set(t, [th[t] EXCEPT !.pc = "stats213", !.row = FetchOne])
    /\ UNCHANGED db

\* line 213 (clicks_for): c.execute("SELECT ts, ip, device FROM clicks ...")
StatsSelect(t) ==
    /\ th[t].pc = "stats213"
    /\ cur' = SelClicks(th[t].code)
    /\ Goto(t, "stats213fetch")
    /\ UNCHANGED db

\* line 213 .fetchall(), lines 216-233 and the report built from the bundle;
\* a row that does not unpack into (ts, ip, device) raises ValueError
StatsFetch(t) ==
    /\ th[t].pc = "stats213fetch"
    /\ cur' = <<>>
    /\ IF \E i \in 1..Len(cur) : Len(cur[i]) # 3
         THEN Finish(t, 500, th[t].code, <<>>)
         ELSE Finish(t, 200, th[t].code, <<th[t].row[1], stats_bundle(cur)>>)
    /\ UNCHANGED db

\* -------------------------------------------------------------- report_csv
\* SQL NULL / Python None (city and country of every click, line 207)
NoneCell == <<"none">>

UaCell(ua) == <<"ua", ua>>

\* SELECT ts, ip, user_agent, device, city, country FROM clicks
\* WHERE short_code=? ORDER BY ts
SelClicksCsv(code) ==
    LET Hit(r) == r.short_code = code
        hits == SelectSeq(clicks, Hit)
    IN  [i \in 1..Len(hits) |->
            <<TsCell(hits[i].ts), StrCell(hits[i].ip), UaCell(hits[i].user_agent),
              StrCell(hits[i].device), NoneCell, NoneCell>>]

\* line 352: str(x) if x is not None else "", for each column of a row
CsvLine(r) == [i \in 1..Len(r) |-> IF r[i] = NoneCell THEN StrCell("") ELSE r[i]]

\* line 350: c.execute("SELECT ts, ip, user_agent, ... FROM clicks ..."); the
\* handler never reads links
ReportCsv(t) ==
    /\ th[t].pc = "idle"
    /\ \E code \in CodeDraws :
         /\ cur' = SelClicksCsv(code)
         /\ Set(t, BeginLookup("report_csv", "csv350fetch", code))
    /\ UNCHANGED db

\* line 350 .fetchall() and lines 351-353: the header line and one line for
\* each row, answered as text/csv
ReportCsvFetch(t) ==
    /\ th[t].pc = "csv350fetch"
    /\ cur' = <<>>
    /\ Finish(t, 200, th[t].code, [i \in 1..Len(cur) |-> CsvLine(cur[i])])
    /\ UNCHANGED db

\* ---------------------------------------------------------- specifications
\* the steps inside a request, by the code they belong to
OwnerStep(t) ==
    \/ EnsureSelect(t)
    \/ EnsureFetch(t)
    \/ EnsureInsert(t)
    \/ PlanSelect(t)
    \/ PlanFetch(t)

CreateStep(t) ==
    \/ CreateCountSelect(t)
    \/ CreateCountFetch(t)
    \/ MakeCodeSelect(t)
    \/ MakeCodeFetch(t)
    \/ CreateInsert(t)

ListStep(t) ==
    \/ ListSelect(t)
    \/ ListNext(t)
    \/ ListCountSelect(t)
    \/ ListCountFetch(t)

LookupStep(t) ==
    \/ GoFetch(t)
    \/ GoInsert(t)
    \/ ReportFetch(t)
    \/ StatsSelect(t)
    \/ StatsFetch(t)

\* a request arrives at a worker of the thread pool
Arrive(t) ==
    \/ GetPlanMissingToken(t)
    \/ GetPlan(t)
    \/ CreateLinkMissingToken(t)
    \/ CreateLink(t)
    \/ ListLinksMissingToken(t)
    \/ ListLinks(t)
    \/ Go(t)
    \/ ReportPdf(t)
    \/ ReportCsv(t)

\* a webhook call arrives at the event loop
Webhook ==
    \/ WebhookIgnored
    \/ WebhookRejected
    \/ WebhookNoop
    \/ WebhookUpgrade

\* requests served one at a time
SeqNext ==
    \/ AllIdle /\ Arrive("w1")
    \/ AllIdle /\ Webhook
    \/ \E t \in {"w1", Loop} : OwnerStep(t)
    \/ CreateStep("w1")
    \/ ListStep("w1")
    \/ LookupStep("w1")
    \/ ReportCsvFetch("w1")
    \/ SetPlanUpdate(Loop)
    \/ \E t \in {"w1", Loop} : Return(t)

SeqSpec == Init /\ [][SeqNext]_vars

RoomForRaceRow == Len(links) + Len(clicks) + Storing < RaceRows

\* concurrent create_link requests of one owner, on the two workers
QuotaNext ==
    \/ \E t \in Workers : CreateLink(t) /\ th'[t].owner = OwnerKey("a")
    \/ \E t \in Workers : OwnerStep(t)
    \/ \E t \in Workers : CreateStep(t)
    \/ \E t \in Workers : Return(t)

QuotaSpec == Init /\ [][QuotaNext]_vars

\* concurrent lookups (go, report_pdf) on the two workers, of links that one
\* owner creates one request at a time while no lookup is in flight: the only
\* requests that overlap are lookups
NoCreateInFlight == th["w1"].op # "create_link"

LookupNext ==
    \/ AllIdle /\ RoomForRaceRow /\ CreateLink("w1") /\ th'["w1"].owner = OwnerKey("a")
    \/ OwnerStep("w1")
    \/ CreateStep("w1")
    \/ \E t \in Workers : NoCreateInFlight /\ RoomForRaceRow /\ Go(t)
    \/ \E t \in Workers : NoCreateInFlight /\ ReportPdf(t)
    \/ \E t \in Workers : LookupStep(t)
    \/ \E t \in Workers : Return(t)

LookupSpec == Init /\ [][LookupNext]_vars

\* create_link of one owner and upgrades served one at a time, with get_plan
\* requests on the second worker overlapping the creates
PlanNext ==
    \/ AllIdle /\ CreateLink("w1") /\ th'["w1"].owner = OwnerKey("a")
    \/ AllIdle /\ WebhookUpgrade
    \/ th[Loop].pc = "idle" /\ GetPlan("w2")
    \/ \E t \in Threads : OwnerStep(t)
    \/ CreateStep("w1")
    \/ SetPlanUpdate(Loop)
    \/ \E t \in Threads : Return(t)

PlanSpec == Init /\ [][PlanNext]_vars

\* classify_device on its own: the signature substrings a lowercased
\* User-Agent can hold, the empty set for an absent or empty header; the
\* last two are substrings the function does not look for
UaParts == {"ipad", "tablet", "iphone", "android", "mobile", "googlebot", "mozilla"}

ClassifyInit ==
    /\ owners = <<>>
    /\ links = <<>>
    /\ clicks = <<>>
    /\ cur = <<>>
    /\ \E ua \in SUBSET UaParts :
         th = [t \in Threads |->
                 IF t = "w1"
                   THEN [Begin("classify_device", "classify105", "", "", 0)
                           EXCEPT !.row = ua]
                   ELSE IdleThread]

\* lines 105-109 applied to the User-Agent
ClassifyApply(t) ==
    /\ th[t].pc = "classify105"
    /\ Finish(t, 200, th[t].row, classify_device(th[t].row))
    /\ UNCHANGED <<db, cur>>

ClassifyNext == ClassifyApply("w1")

ClassifySpec == ClassifyInit /\ [][ClassifyNext]_vars

\* ------------------------------------------------------------ observations
OwnerKeys == {OwnerKey(tok) : tok \in Tokens}

LinkCount(owner) == Cardinality({i \in 1..Len(links) : links[i].owner_key = owner})

ClickCount(code) == Cardinality({i \in 1..Len(clicks) : clicks[i].short_code = code})

UrlOf(code) ==
    links[CHOOSE i \in 1..Len(links) : links[i].short_code = code].original_url

\* a worker holds the response of a finished request of this handler
Answered(t, op) == th[t].pc = "done" /\ th[t].res.op = op

\* ------------------------------------------------------------------ claims
\* C1: an owner on the free plan never has more than FREE_LIMIT links, in any
\* state concurrent create_link requests of that owner can reach.
C1_FreeOwnerWithinLimit ==
    \A owner \in OwnerKeys : ~PlanIsPro(owner) => LinkCount(owner) <= FREE_LIMIT

\* C3: no two links share a short_code, and the code make_code returned is not
\* prior in links when its caller comes to insert it.
C3_CodesUniqueAndFresh ==
    /\ \A i, j \in 1..Len(links) : links[i].short_code = links[j].short_code => i = j
    /\ \A t \in Threads : th[t].pc = "create164" => ~ShortCodeTaken(th[t].code)

\* C4: every click row belongs to an existing link: a redirect of a code that
\* has no link answers 404 and writes no click.
C4_ClicksOnlyForLinks ==
    /\ \A i \in 1..Len(clicks) : ShortCodeTaken(clicks[i].short_code)
    /\ \A t \in Threads :
         Answered(t, "go") /\ ~th[t].res.prior => th[t].res.status = 404

\* C5: a lookup of a prior code (go, report_pdf) resolves to the destination
\* the link was created with.
C5_LookupResolvesToDestination ==
    \A t \in Threads :
      /\ Answered(t, "go") /\ th[t].res.prior =>
           /\ th[t].res.status = 307
           /\ th[t].res.val = StrCell(UrlOf(th[t].res.arg))
      /\ Answered(t, "report_pdf") /\ th[t].res.prior /\ th[t].res.status # 500 =>
           /\ th[t].res.status = 200
           /\ th[t].res.val[1] = StrCell(UrlOf(th[t].res.arg))

\* C2: served one at a time, a create_link call of an owner succeeds exactly
\* when the owner is pro or has fewer than FREE_LIMIT links, and then stores
\* one link of that owner; otherwise it answers 402 and stores nothing.
C2_CreateDecidedByPlanAndCount ==
    [][\A t \in Workers :
         th[t].op = "create_link" /\ th'[t].pc = "done" =>
           LET owner == th[t].owner
               allowed == PlanIsPro(owner) \/ LinkCount(owner) < FREE_LIMIT
           IN  IF allowed
                 THEN /\ th'[t].res.status = 200
                      /\ Len(links') = Len(links) + 1
                      /\ SubSeq(links', 1, Len(links)) = links
                      /\ links'[Len(links')].owner_key = owner
                 ELSE /\ th'[t].res.status = 402
                      /\ links' = links]_vars

\* a pro owner's create beyond the free limit has succeeded
C2_Witness ==
    \E t \in Workers :
      /\ Answered(t, "create_link")
      /\ th[t].res.status = 200
      /\ LinkCount(th[t].res.arg) = FREE_LIMIT + 1

\* the listing list_links should return: the owner's links, newest first, each
\* with the number of clicks prior for its code
Listing(owner) ==
    LET rows == SelLinksDesc(owner)
    IN  [i \in 1..Len(rows) |->
            [original_url |-> rows[i][1], short_code |-> rows[i][2],
             clicks |-> IntCell(ClickCount(rows[i][2][2]))]]

\* C6: list_links answers with one entry for each of the owner's links and
\* for no other link, newest first, each with its click count; the empty list
\* for an owner without links.
C6_ListingIsOwnersLinks ==
    \A t \in Workers :
      Answered(t, "list_links") /\ th[t].res.arg # NoToken =>
        /\ th[t].res.status = 200
        /\ th[t].res.val = Listing(th[t].res.arg)

\* C7: the bundle of a code counts the code's click rows, in total and by
\* device class; with no click it is all zero with "-" for first and last.
C7_StatsCountClicks ==
    \A t \in Workers :
      Answered(t, "report_pdf") /\ th[t].res.prior =>
        LET code == th[t].res.arg
            st == th[t].res.val[2]
            Of(d) == Cardinality({i \in 1..Len(clicks) :
                        clicks[i].short_code = code /\ clicks[i].device = d})
        IN  /\ th[t].res.status = 200
            /\ st.total = ClickCount(code)
            /\ st.mobile = Of("mobile")
            /\ st.desktop = Of("desktop")
            /\ st.tablet = Of("tablet")
            /\ ClickCount(code) = 0 =>
                 /\ st.total = 0
                 /\ st.unique_visitors = 0
                 /\ \A d \in 0..6 : st.day_counts[d] = 0
                 /\ st.mobile = 0 /\ st.desktop = 0 /\ st.tablet = 0
                 /\ st.first_pretty = StrCell("-")
                 /\ st.last_pretty = StrCell("-")

\* a report of a code that has a mobile and a desktop click
C7_Witness ==
    \E t \in Workers :
      /\ Answered(t, "report_pdf")
      /\ th[t].res.status = 200
      /\ th[t].res.val[2].total = 2
      /\ th[t].res.val[2].mobile = 1
      /\ th[t].res.val[2].desktop = 1

NoDupOwners ==
    \A i, j \in 1..Len(owners) : owners[i].owner_key = owners[j].owner_key => i = j

\* the rows of an owners table that carry the key
RowsOf(table, owner) == {i \in 1..Len(table) : table[i].owner_key = owner}

\* C8: an upgrade leaves exactly one row of the owner, with plan pro, whether
\* or not the row was there; applied to an owner that is pro already it
\* changes nothing; no two owner rows ever share an owner_key.
C8_UpgradeIdempotent ==
    [][/\ NoDupOwners'
       /\ th[Loop].op = "stripe_webhook" /\ th'[Loop].pc = "done" =>
            /\ th'[Loop].res.status = 200
            /\ Cardinality(RowsOf(owners', th[Loop].owner)) = 1
            /\ \A i \in RowsOf(owners', th[Loop].owner) : owners'[i].plan = "pro"
       /\ th[Loop].op = "stripe_webhook" /\ PlanIsPro(th[Loop].owner) =>
            owners' = owners]_vars

\* an upgrade of an owner that was pro already has been applied
C8_Witness ==
    /\ Answered(Loop, "stripe_webhook")
    /\ th[Loop].res.prior
    /\ th[Loop].res.status = 200
    /\ PlanIsPro(th[Loop].res.arg[4])

\* C9: get_plan changes none of owners, links and clicks, and answers free
\* for an owner that has no row.
C9_PlanLookupReadOnly ==
    [][\A t \in Workers :
         th[t].op = "get_plan" =>
           /\ db' = db
           /\ th'[t].pc = "done" /\ ~th[t].prior => th'[t].res.val = StrCell("free")]_vars

\* C10: a webhook call that is not acted on (no secret configured, signature
\* not verified, another event type, no owner_key) changes none of owners,
\* links and clicks; it answers 400 exactly when the secret is configured and
\* the signature does not verify; the calls that change the store are verified
\* checkout.session.completed events that carry an owner_key.
C10_WebhookGuarded ==
    [][th'[Loop] # th[Loop] =>
         /\ th[Loop].pc = "idle" /\ th'[Loop].pc = "done" =>
              /\ db' = db
              /\ th'[Loop].res.status = 400 <=>
                   (th'[Loop].res.arg[1] /\ ~th'[Loop].res.arg[2])
         /\ db' # db =>
              /\ th[Loop].row[1]
              /\ th[Loop].row[2]
              /\ th[Loop].row[3] = "checkout.session.completed"
              /\ th[Loop].row[4] # ""]_vars

\* an unverified checkout.session.completed naming a free owner was rejected
C10_Witness ==
    /\ Answered(Loop, "stripe_webhook")
    /\ th[Loop].res.status = 400
    /\ th[Loop].res.arg[3] = "checkout.session.completed"
    /\ OwnerKeyTaken(th[Loop].res.arg[4])
    /\ ~PlanIsPro(th[Loop].res.arg[4])

\* C11: create_link with an empty destination URL or without an owner token
\* answers 400 and changes none of owners, links and clicks.
C11_CreateRejectsInvalidInput ==
    [][\A t \in Workers :
         /\ th'[t].pc = "done" /\ th'[t].res.op = "create_link" /\ th[t].pc # "done"
         /\ \/ th'[t].res.arg = NoToken
            \/ th'[t].res.val # <<>> /\ th'[t].res.val[1] = EmptyUrl
         => /\ th'[t].res.status = 400
            /\ db' = db]_vars

\* C12: both report endpoints answer 404 exactly for a code that no link has:
\* report_pdf and report_csv answer a report only for the code of a link.
C12_ReportsUnknownCode404 ==
    \A t \in Workers :
      Answered(t, "report_pdf") \/ Answered(t, "report_csv") =>
        (th[t].res.status = 404 <=> ~th[t].res.prior)

\* the device classes in their order of precedence: tablet, then mobile, then
\* bot, then desktop for a recognizable browser, else unknown
BotSigs == {"googlebot"}

BrowserSigs == {"mozilla"}

ExpectedDevice(ua) ==
    IF ua \cap TabletSigs # {} THEN "tablet"
    ELSE IF ua \cap MobileSigs # {} THEN "mobile"
    ELSE IF ua \cap BotSigs # {} THEN "bot"
    ELSE IF ua \cap BrowserSigs # {} THEN "desktop"
    ELSE "unknown"

\* C13: classify_device answers by the precedence tablet, mobile, bot,
\* desktop (a recognizable browser), unknown, for every User-Agent, the empty
\* one included.
C13_ClassifyPrecedence ==
    Answered("w1", "classify_device") =>
      th["w1"].res.val = ExpectedDevice(th["w1"].res.arg)

\* C14: every plan is free or pro; an owner row is created with plan free, no
\* row is removed, and a row that is pro stays pro; a create_link of an owner
\* that is pro is never answered 402.
C14_PlanMonotone ==
    [][/\ \A i \in 1..Len(owners') : owners'[i].plan \in {"free", "pro"}
       /\ Len(owners') >= Len(owners)
       /\ \A i \in 1..Len(owners) :
            /\ owners'[i].owner_key = owners[i].owner_key
            /\ owners[i].plan = "pro" => owners'[i].plan = "pro"
       /\ \A i \in (Len(owners) + 1)..Len(owners') : owners'[i].plan = "free"
       /\ \A t \in Workers :
            th[t].op = "create_link" /\ PlanIsPro(th[t].owner) /\ th'[t].pc = "done" =>
              th'[t].res.status # 402]_vars

====
